---- MODULE Spec2Model ----
(***************************************************************************)
(* Model of the deployment server (src/src/server.ts): the control-plane   *)
(* listener, handleUpload, stopCurrentApp, startApp, the state ledger and   *)
(* the startup recovery.  JavaScript runs one turn at a time, so every      *)
(* action is the code that runs between two awaits that wait for I/O: the   *)
(* completion of the pending I/O followed by the synchronous code up to    *)
(* the next such await.  An await of an already settled promise             *)
(* (`await stopCurrentApp()`) continues in the same turn.                   *)
(***************************************************************************)
EXTENDS Integers, Sequences, FiniteSets, TLC

\* ------------------------------------------------------------------ bounds
\* Upload requests accepted over the whole run.
MaxUploads == 2
\* Starts of the host process over the whole run.
MaxBoots == 2
\* Ticks of the client's clock over the whole run.
MaxClock == 3

\* --------------------------------------------------------------- constants
UPLOAD_PORT == 7899
\* The port Bun.serve binds when its `port` option is undefined.
DefaultPort == 3000

\* Concurrently running handleUpload invocations, and the recovery IIFE.
Handlers == {"h1", "h2"}
Recovery == "rec"
Procs == Handlers \cup {Recovery}

Hashes == {"v1", "v2"}
EntryFile == "index.js"

\* A header that request.headers.get() finds absent (null).
NoHeader == "<null>"
\* X-Deploy-Port values, as the characters of the header; <<>> is the absent
\* header (null and "" both fail the `!port` test).
PortHeaders ==
    { <<>>,
      <<"3", "0", "0", "0">>,
      <<"3", "0", "0", "1">>,
      <<"3", "0", "0", "0", "a", "b", "c">>,
      <<"3", "0", "0", "0", ".", "5">>,
      <<"a", "b", "c">> }

\* The request body: a gzip tar that tar can or cannot read, and its files.
Archives ==
    { [valid |-> FALSE, files |-> {}],
      [valid |-> TRUE, files |-> {EntryFile}],
      [valid |-> TRUE, files |-> {"extra.txt"}] }
NoArchive == [valid |-> FALSE, files |-> {}]

UploadRoute == [path |-> "/upload", method |-> "POST"]
StatusRoute == [path |-> "/status", method |-> "GET"]
Routes ==
    { UploadRoute, StatusRoute,
      [path |-> "/upload", method |-> "GET"],
      [path |-> "/status", method |-> "POST"] }

Request(route, hash, port, entrypoint, archive) ==
    [route |-> route, hash |-> hash, port |-> port, entrypoint |-> entrypoint,
     archive |-> archive]

GoodArchive == [valid |-> TRUE, files |-> {EntryFile}]
Port3000 == <<"3", "0", "0", "0">>

\* The requests the listener is sent: every route; uploads with every
\* header in turn absent; uploads with every port header; uploads of a good
\* archive under another version; and uploads of every archive.
Requests ==
    {Request(r, NoHeader, <<>>, NoHeader, NoArchive) : r \in Routes \ {UploadRoute}}
    \cup {Request(UploadRoute, NoHeader, Port3000, EntryFile, GoodArchive),
          Request(UploadRoute, "v1", Port3000, NoHeader, GoodArchive)}
    \cup {Request(UploadRoute, "v1", p, EntryFile, GoodArchive) : p \in PortHeaders}
    \cup {Request(UploadRoute, "v2", Port3000, EntryFile, GoodArchive)}
    \cup {Request(UploadRoute, "v1", Port3000, EntryFile, a) : a \in Archives}

VARIABLES
    host,                   \* "down" | "up": the server process
    boots,                  \* starts of the process so far; the clock
    uploads,                \* requests accepted so far
    stateFile,              \* content of STATE_FILE
    dirs,                   \* DEPLOYMENTS_DIR/<hash>
    tmp,                    \* /tmp/deploy-<hash>.tar.gz
    running,                \* the listeners Bun.serve has bound and not stopped
    currentAppServer,       \* {} (null) or {the handle}
    currentDeploymentHash,  \* a hash or "null"
    proc,                   \* the position and locals of every async task
    answer,                 \* the response the listener sent last
    lastOk,                 \* the descriptor of the upload answered 200 last
    started,                \* per version, the files it was last started with
    unhandled,              \* the tasks whose error no catch handled
    cli                     \* the client: its clock and the runs of cli.ts

\* The variables of the server, and all of them.
serverVars == <<host, boots, uploads, stateFile, dirs, tmp, running,
                currentAppServer, currentDeploymentHash, proc, answer, lastOk,
                started, unhandled>>
vars == <<serverVars, cli>>

\* ----------------------------------------------------------- pure helpers
Digits == {"0", "1", "2", "3", "4", "5", "6", "7", "8", "9"}

DigitVal(c) ==
    CASE c = "0" -> 0 [] c = "1" -> 1 [] c = "2" -> 2 [] c = "3" -> 3
      [] c = "4" -> 4 [] c = "5" -> 5 [] c = "6" -> 6 [] c = "7" -> 7
      [] c = "8" -> 8 [] c = "9" -> 9

\* Length of the longest prefix of s made of decimal digits.
RECURSIVE DigitPrefix(_)
DigitPrefix(s) ==
    IF s = <<>> \/ Head(s) \notin Digits THEN 0 ELSE 1 + DigitPrefix(Tail(s))

RECURSIVE DecimalValue(_, _)
DecimalValue(s, n) ==
    IF n = 0 THEN 0 ELSE 10 * DecimalValue(s, n - 1) + DigitVal(s[n])

NaN == -1

\* parseInt(port): the number spelled by the leading digits, NaN when the
\* string does not start with a digit.  What follows the digits is ignored.
parseInt(s) ==
    IF DigitPrefix(s) = 0 THEN NaN ELSE DecimalValue(s, DigitPrefix(s))

\* ------------------------------------------------------------ state shapes
AllFields == {"hash", "port", "entrypoint"}

\* A DeploymentState object as JavaScript holds it; `has` are the fields that
\* are not undefined.
NoState ==
    [has |-> {}, hash |-> NoHeader, port |-> 0, entrypoint |-> NoHeader,
     timestamp |-> 0]

\* The object literal of saveDeploymentState.
DeploymentState(has, hash, port, entrypoint, timestamp) ==
    [has |-> has,
     hash |-> IF "hash" \in has THEN hash ELSE NoHeader,
     port |-> IF "port" \in has THEN port ELSE 0,
     entrypoint |-> IF "entrypoint" \in has THEN entrypoint ELSE NoHeader,
     timestamp |-> timestamp]

\* STATE_FILE does not exist.
NoStateFile == [kind |-> "missing", state |-> NoState]
\* A file that is not JSON (empty, truncated), and the JSON text `null`.
Garbage == [kind |-> "garbage", state |-> NoState]
JsonNull == [kind |-> "null", state |-> NoState]

\* A write of the object with every field left out.
StringifyEmpty(state) == [kind |-> "object", state |-> NoState]

\* JSON.stringify(state, null, 2): undefined fields are left out.
Stringify(state) == [kind |-> "object", state |-> state]

\* A ledger record with every field: what a deploy writes.
IsRecord(f) == f.kind = "object" /\ f.state.has = AllFields

NoDir == [exists |-> FALSE, files |-> {}]
EmptyDir == [exists |-> TRUE, files |-> {}]
NoTmp == [exists |-> FALSE, valid |-> FALSE, files |-> {}]

\* An async task that is not running.  `outcome` is how a task ended:
\* "deployed", "status", "notfound", "missing" (a header is absent), "nan"
\* (the port does not parse) are answers of the listener,
\* "recovered", "absent", "nodir" are ends of the recovery, and "load",
\* "join", "materialize", "stop", "start", "persist" name the code that threw.
\* `did` are the deploy steps the task has carried out, `before` is the
\* content of STATE_FILE when the task began, and `alone` tells that no other
\* task was in flight at any time since this one began.
Idle ==
    [pc |-> "idle", status |-> 0, outcome |-> "pending", portHdr |-> <<>>,
     state |-> NoState, archive |-> NoArchive, did |-> {},
     before |-> NoStateFile, alone |-> TRUE]

Errors == {"load", "join", "materialize", "stop", "start", "persist"}

\* The body of the Response each return of the listener builds: the JSON
\* object with its fields, or plain text.
NoBody == [type |-> "none", fields |-> {}]
ResponseBody(outcome) ==
    CASE outcome = "deployed" ->
           [type |-> "json",
            fields |-> {"success", "hash", "port", "message", "duration"}]
      [] outcome \in Errors ->
           [type |-> "json", fields |-> {"success", "error"}]
      [] outcome = "status" ->
           [type |-> "json",
            fields |-> {"currentDeployment", "uploadPort", "deploymentsDir",
                        "uptime"}]
      [] outcome \in {"missing", "nan", "notfound"} ->
           [type |-> "text", fields |-> {}]
      [] OTHER -> NoBody

\* No response sent yet, and the response a finished handler sent.
NoAnswer ==
    [status |-> 0, outcome |-> "pending", did |-> {}, body |-> NoBody]
Answer(pr) ==
    [status |-> pr.status, outcome |-> pr.outcome, did |-> pr.did,
     body |-> ResponseBody(pr.outcome)]

\* The handle Bun.serve returns: the listener bound to `port`.
Instance(p, hash, port, entrypoint) ==
    [hash |-> hash, port |-> port, entrypoint |-> entrypoint, by |-> p]

BoundPorts == {i.port : i \in running}

\* new Date(): time is counted in starts of the process, the only instants
\* the ledger's timestamp is compared across.
Now == boots

\* ------------------------------------------------- the client (cli.ts)
\* The runs of the CLI, on machines whose clocks agree.
Runs == {"r1", "r2"}

\* The bytes of the archive tar wrote: two builds give "a" or "b".
Contents == {"a", "b"}
NoContent == "<none>"

\* Clock ticks in one second: `.slice(0, 19)` of the ISO string cuts the
\* milliseconds, so generateHash sees the clock in whole seconds.
TicksPerSecond == 2

\* createHash("sha256").update(content).digest("hex"): a fixed digest for
\* each content, written here with three hex digits.
Sha256(content) ==
    CASE content = "a" -> <<"3", "f", "9">>
      [] content = "b" -> <<"c", "0", "9">>

\* `.substring(0, 12)`: the leading digits of the digest that are kept, here
\* two of the three.
HexKept == 2

\* generateHash(content) at clock reading `now`: `${timestamp}_${hash}`.
generateHash(content, now) ==
    [timestamp |-> now \div TicksPerSecond,
     hash |-> SubSeq(Sha256(content), 1, HexKept)]

\* Exit codes of a spawned command.
ExitCodes == {0, 1}

\* What fetch gives: a rejection (no response), or a response with its
\* status and with a body that is or is not JSON.
NetworkError == [status |-> 0, json |-> FALSE]
Responses ==
    { NetworkError,
      [status |-> 200, json |-> TRUE],
      [status |-> 200, json |-> FALSE],
      [status |-> 400, json |-> FALSE],
      [status |-> 500, json |-> TRUE] }

\* response.ok
ResponseOk(resp) == resp.status >= 200 /\ resp.status <= 299

\* The steps of main, in the order of its code.
Steps == <<"build", "check", "package", "upload", "cleanup">>

\* A run of main that has not begun.  `did` are the steps passed, in order;
\* `build`, `dist`, `archive`, `response` hold what the run observed ({} when
\* it did not get there), `hash` the identifier it sent, `sent` whether fetch
\* was called, `exit` the exit code of the process.
CliIdle ==
    [pc |-> "idle", did |-> <<>>, build |-> {}, dist |-> {}, archive |-> {},
     content |-> NoContent, hash |-> {}, sent |-> FALSE, response |-> {},
     exit |-> {}]

\* ------------------------------------------------------------------- Init
\* The first start of the server on a fresh host: no deployments, no state.
Init ==
    /\ host = "down"
    /\ boots = 0
    /\ uploads = 0
    /\ stateFile = NoStateFile
    /\ dirs = [h \in Hashes |-> NoDir]
    /\ tmp = [h \in Hashes |-> NoTmp]
    /\ running = {}
    /\ currentAppServer = {}
    /\ currentDeploymentHash = "null"
    /\ proc = [p \in Procs |-> Idle]
    /\ answer = NoAnswer
    /\ lastOk = NoState
    /\ started = [h \in Hashes |-> {}]
    /\ unhandled = {}
    /\ cli = [now |-> 0, run |-> [r \in Runs |-> CliIdle]]

\* ------------------------------------------------------- shared fragments
\* The task ends: a handler answers `status`; the recovery only logs.
Finished(p, pr, status, outcome) ==
    [pr EXCEPT !.pc = "done",
               !.status = IF p = Recovery THEN 0 ELSE status,
               !.outcome = outcome]

\* Task p goes on as pr.  A handler that has ended sends its response and is
\* gone with its locals; the recovery's end stays on record.  A task that goes
\* from its import to its ledger write has just started its version on the
\* files its directory holds.
Becomes(p, pr) ==
    IF p \in Handlers /\ pr.pc = "done"
    THEN /\ proc' = [proc EXCEPT ![p] = Idle]
         /\ answer' = Answer(pr)
         /\ lastOk' = IF pr.outcome = "deployed"
                       THEN [pr.state EXCEPT !.timestamp = 0]
                       ELSE lastOk
         /\ started' = started
         /\ cli' = cli
    ELSE /\ proc' = [proc EXCEPT ![p] = pr]
         /\ answer' = answer
         /\ lastOk' = lastOk
         /\ started' = IF proc[p].pc = "import" /\ pr.pc = "save"
                        THEN [started EXCEPT ![pr.state.hash] =
                                 dirs[pr.state.hash].files]
                        ELSE started
         /\ cli' = cli

\* Whether a task is between its beginning and its end.
InFlight(pr) == pr.pc \notin {"idle", "done"}

\* Handler h begins as pr.  A request answered in the turn that receives it
\* overlaps nothing; an invocation that goes on to await runs next to every
\* task in flight.
Joins(h, pr) ==
    IF pr.pc = "done"
    THEN Becomes(h, pr)
    ELSE /\ proc' = [q \in Procs |->
              IF q = h
              THEN [pr EXCEPT !.alone =
                       \A o \in Procs \ {h} : ~InFlight(proc[o])]
              ELSE IF q \in Handlers /\ InFlight(proc[q])
              THEN [proc[q] EXCEPT !.alone = FALSE]
              ELSE proc[q]]
         /\ answer' = answer
         /\ lastOk' = lastOk
         /\ started' = started
         /\ cli' = cli

\* A catch that answers as the success path does.
ThrownAnswers200(p, pr, step) == Finished(p, pr, 200, step)

\* An error thrown at `step` ends the task: handleUpload answers 500 from its
\* catch.
Thrown(p, pr, step) == Finished(p, pr, 500, step)

\* A recovery whose call of startApp no try encloses.
CaughtInHandlersOnly(p, step) == p \in Handlers

\* Whether a try block of task p encloses the code that throws at `step`:
\* handleUpload's try encloses its whole body, loadDeploymentState's the
\* read and the parse, and the recovery's try encloses startApp only.
Caught(p, step) ==
    \/ p \in Handlers
    \/ p = Recovery /\ step \in {"load", "start", "persist"}

\* The tasks whose end in record pr is an unhandled rejection.
Escaping(p, pr) ==
    IF pr.outcome \in Errors /\ ~Caught(p, pr.outcome) THEN {p} ELSE {}

\* startApp up to `await import(entrypointPath)`: the existsSync test.
BeginStartApp(p, pr) ==
    IF dirs[pr.state.hash].exists /\ pr.state.entrypoint \in dirs[pr.state.hash].files
    THEN [pr EXCEPT !.pc = "import"]
    ELSE Thrown(p, pr, "start")

\* stopCurrentApp: stop() may raise, and then the handle is kept.
StopOutcomes == IF currentAppServer = {} THEN {"none"} ELSE {"stopped", "raised"}

ServeDefaultPort(state) == DefaultPort

\* The port Bun.serve({port}) asks for.
ServePort(state) == IF "port" \in state.has THEN state.port ELSE DefaultPort

\* ---------------------------------------------------- uploadServer.fetch
\* A handler that tests the port header only.
PortMissing(req) == req.port = <<>>

\* `!hash || !port || !entrypoint`: a header is absent or empty.
HeadersMissing(req) ==
    req.hash = NoHeader \/ req.port = <<>> \/ req.entrypoint = NoHeader

\* A request arrives.  Everything up to `await request.arrayBuffer()` runs in
\* the turn that accepts it: routing and the validation of the headers.
\* Handler slots are taken in order.
Receive(h, req) ==
    /\ host = "up"
    /\ proc[h].pc = "idle"
    /\ h = "h2" => proc["h1"].pc # "idle"
    /\ uploads < MaxUploads
    /\ uploads' = uploads + 1
    /\ Joins(h,
         IF req.route.path = "/upload" /\ req.route.method = "POST"
         THEN IF HeadersMissing(req)
              THEN Finished(h, Idle, 400, "missing")
              ELSE IF parseInt(req.port) = NaN
              THEN Finished(h, Idle, 400, "nan")
              ELSE [Idle EXCEPT !.pc = "body", !.portHdr = req.port,
                                !.state = DeploymentState(AllFields, req.hash,
                                            parseInt(req.port), req.entrypoint, 0),
                                !.archive = req.archive, !.before = stateFile]
         ELSE IF req.route.path = "/status" /\ req.route.method = "GET"
         THEN Finished(h, Idle, 200, "status")
         ELSE Finished(h, Idle, 404, "notfound"))
    /\ UNCHANGED <<host, boots, stateFile, dirs, tmp, running,
                   currentAppServer, currentDeploymentHash, unhandled>>

\* ------------------------------------------------------------ handleUpload
\* `await request.arrayBuffer()` settles; Bun.write(tempFile) is issued.
BodyDone(h) ==
    /\ host = "up"
    /\ proc[h].pc = "body"
    /\ \/ Becomes(h, [proc[h] EXCEPT !.pc = "tmpwrite", !.portHdr = <<>>])
       \/ Becomes(h, Thrown(h, proc[h], "materialize"))
    /\ UNCHANGED <<host, boots, uploads, stateFile, dirs, tmp, running,
                   currentAppServer, currentDeploymentHash, unhandled>>

\* `await Bun.write(tempFile, arrayBuffer)` settles; then existsSync of the
\* deployment directory: `rm -rf` is issued, or mkdirSync and tar.
TmpWriteDone(h) ==
    LET pr == proc[h]
        hash == pr.state.hash
    IN  /\ host = "up"
        /\ pr.pc = "tmpwrite"
        /\ \/ /\ tmp' = [tmp EXCEPT ![hash] =
                    [exists |-> TRUE, valid |-> pr.archive.valid,
                     files |-> pr.archive.files]]
              /\ IF dirs[hash].exists
                 THEN /\ Becomes(h, [pr EXCEPT !.pc = "rmrf"])
                      /\ dirs' = dirs
                 ELSE /\ Becomes(h, [pr EXCEPT !.pc = "tar"])
                      /\ dirs' = [dirs EXCEPT ![hash] = EmptyDir]
           \/ /\ Becomes(h, Thrown(h, pr, "materialize"))
              /\ UNCHANGED <<tmp, dirs>>
        /\ UNCHANGED <<host, boots, uploads, stateFile, running,
                       currentAppServer, currentDeploymentHash, unhandled>>

\* `await $`rm -rf ${deploymentPath}`` settles; mkdirSync; tar is issued.
RmRfDone(h) ==
    LET pr == proc[h]
        hash == pr.state.hash
    IN  /\ host = "up"
        /\ pr.pc = "rmrf"
        /\ \/ /\ dirs' = [dirs EXCEPT ![hash] = EmptyDir]
              /\ Becomes(h, [pr EXCEPT !.pc = "tar"])
           \/ /\ Becomes(h, Thrown(h, pr, "materialize"))
              /\ dirs' = dirs
        /\ UNCHANGED <<host, boots, uploads, stateFile, tmp, running,
                       currentAppServer, currentDeploymentHash, unhandled>>

\* What `tar -xzf tempFile -C deploymentPath` leaves in the directory: the
\* files of the archive over the files that are there.
Extract(dir, archive) == [dir EXCEPT !.files = @ \cup archive.files]

AfterTarUnchecked(h, pr, ok) ==
    [pr EXCEPT !.pc = "rmtmp",
               !.did = IF ok THEN @ \cup {"materialize"} ELSE @]

\* handleUpload after `await $`tar ...``: a failed tar throws a ShellError.
AfterTar(h, pr, ok) ==
    IF ok
    THEN [pr EXCEPT !.pc = "rmtmp", !.did = @ \cup {"materialize"}]
    ELSE Thrown(h, pr, "materialize")

\* `await $`tar -xzf ...`` settles: tar fails on a missing or unreadable
\* archive and on a missing directory; `rm tempFile` is issued.
TarDone(h) ==
    LET pr == proc[h]
        hash == pr.state.hash
        ok == tmp[hash].exists /\ tmp[hash].valid /\ dirs[hash].exists
    IN  /\ host = "up"
        /\ pr.pc = "tar"
        /\ dirs' = IF ok THEN [dirs EXCEPT ![hash] = Extract(@, tmp[hash])]
                   ELSE dirs
        /\ Becomes(h, AfterTar(h, pr, ok))
        /\ UNCHANGED <<host, boots, uploads, stateFile, tmp, running,
                       currentAppServer, currentDeploymentHash, unhandled>>

\* The task after `await stopCurrentApp()`: the deploy goes on to startApp
\* when stop() returned, and is aborted by handleUpload's catch when it raised.
AfterStop(h, pr, outcome) ==
    IF outcome = "raised"
    THEN Thrown(h, pr, "stop")
    ELSE BeginStartApp(h, [pr EXCEPT !.did = @ \cup {"stop"}])

\* `await $`rm ${tempFile}`` settles (rm fails when the file is gone); then
\* stopCurrentApp() and startApp() up to its `await import()`.
RmTmpDone(h) ==
    LET pr == proc[h]
        hash == pr.state.hash
        pr1 == [pr EXCEPT !.archive = NoArchive]
    IN  /\ host = "up"
        /\ pr.pc = "rmtmp"
        /\ IF ~tmp[hash].exists
           THEN /\ Becomes(h, Thrown(h, pr, "materialize"))
                /\ UNCHANGED <<tmp, running, currentAppServer>>
           ELSE /\ tmp' = [tmp EXCEPT ![hash] = NoTmp]
                /\ \E outcome \in StopOutcomes :
                     /\ Becomes(h, AfterStop(h, pr1, outcome))
                     /\ IF outcome = "stopped"
                        THEN /\ running' = running \ currentAppServer
                             /\ currentAppServer' = {}
                        ELSE UNCHANGED <<running, currentAppServer>>
        /\ UNCHANGED <<host, boots, uploads, stateFile, dirs,
                       currentDeploymentHash, unhandled>>

\* ---------------------------------------------------------------- startApp
\* `await import(entrypointPath)` settles.  The module may fail to load or
\* expose no fetch; Bun.serve throws when the port is taken.  On success the
\* handle and the hash are set and saveDeploymentState issues its write.
ImportDone(p) ==
    LET pr == proc[p]
        st == pr.state
        port == ServePort(st)
        inst == Instance(p, st.hash, port, st.entrypoint)
    IN  /\ host = "up"
        /\ pr.pc = "import"
        /\ \/ /\ Becomes(p, Thrown(p, pr, "start"))
              /\ UNCHANGED <<running, currentAppServer, currentDeploymentHash>>
           \/ /\ dirs[st.hash].exists /\ st.entrypoint \in dirs[st.hash].files
              /\ IF port \in BoundPorts \cup {UPLOAD_PORT}
                 THEN /\ Becomes(p, Thrown(p, pr, "start"))
                      /\ UNCHANGED <<running, currentAppServer,
                                     currentDeploymentHash>>
                 ELSE /\ running' = running \cup {inst}
                      /\ currentAppServer' = {inst}
                      /\ currentDeploymentHash' = st.hash
                      /\ Becomes(p, [pr EXCEPT !.pc = "save",
                                                !.did = @ \cup {"start"},
                                                !.state.timestamp = Now])
        /\ unhandled' = unhandled \cup Escaping(p, proc'[p])
        /\ UNCHANGED <<host, boots, uploads, stateFile, dirs, tmp>>

\* `await Bun.write(STATE_FILE, ...)` of saveDeploymentState settles; a
\* handler then answers 200.
SaveDone(p) ==
    LET pr == proc[p]
    IN  /\ host = "up"
        /\ pr.pc = "save"
        /\ \/ /\ stateFile' = Stringify(pr.state)
              /\ Becomes(p,
                   Finished(p, [pr EXCEPT !.did = @ \cup {"persist"}], 200,
                            IF p = Recovery THEN "recovered" ELSE "deployed"))
           \/ /\ Becomes(p, Thrown(p, pr, "persist"))
              /\ stateFile' = stateFile
        /\ unhandled' = unhandled \cup Escaping(p, proc'[p])
        /\ UNCHANGED <<host, boots, uploads, dirs, tmp, running,
                       currentAppServer, currentDeploymentHash>>

\* ---------------------------------------------------------------- recovery
\* The process starts: the module's top level runs, the upload server
\* listens, and the recovery IIFE runs up to its first pending read.
\* loadDeploymentState returns null at once when STATE_FILE does not exist.
Boot ==
    /\ host = "down"
    /\ boots < MaxBoots
    /\ host' = "up"
    /\ boots' = boots + 1
    /\ proc' = [p \in Procs |->
         IF p # Recovery THEN Idle
         ELSE IF stateFile.kind = "missing"
              THEN Finished(Recovery, Idle, 0, "absent")
              ELSE [Idle EXCEPT !.pc = "read"]]
    /\ answer' = NoAnswer
    /\ UNCHANGED <<uploads, stateFile, dirs, tmp, running,
                   currentAppServer, currentDeploymentHash, lastOk, started,
                   unhandled, cli>>

\* JSON.parse(content) followed by the console.log lines that read
\* state.hash: both throw inside loadDeploymentState's try.
LoadThrows(content) == content.kind \in {"missing", "garbage", "null"}

\* The recovery IIFE after loadDeploymentState returned lastState = st.
\* join(DEPLOYMENTS_DIR, undefined) throws a TypeError, and so does startApp's
\* join(deploymentPath, undefined).
AfterLoad(pr, st) ==
    IF "hash" \notin st.has THEN Thrown(Recovery, pr, "join")
    ELSE IF ~dirs[st.hash].exists THEN Finished(Recovery, pr, 0, "nodir")
    ELSE IF "entrypoint" \notin st.has THEN Thrown(Recovery, pr, "start")
    ELSE BeginStartApp(Recovery, pr)

\* `await Bun.file(STATE_FILE).text()` settles.
RecReadDone ==
    LET pr == [proc[Recovery] EXCEPT !.before = stateFile]
        st == stateFile.state
    IN  /\ host = "up"
        /\ proc[Recovery].pc = "read"
        /\ Becomes(Recovery,
             IF LoadThrows(stateFile)
             THEN Thrown(Recovery, pr, "load")
             ELSE AfterLoad([pr EXCEPT !.state = st], st))
        /\ unhandled' = unhandled \cup Escaping(Recovery, proc'[Recovery])
        /\ UNCHANGED <<host, boots, uploads, stateFile, dirs, tmp,
                       running, currentAppServer, currentDeploymentHash>>

\* ------------------------------------------------------------ the process
\* The process is gone: its listeners and its memory with it.
Halt ==
    /\ host' = "down"
    /\ running' = {}
    /\ currentAppServer' = {}
    /\ currentDeploymentHash' = "null"
    /\ proc' = [p \in Procs |-> Idle]
    /\ answer' = NoAnswer
    /\ lastOk' = lastOk
    /\ started' = started
    /\ cli' = cli
    /\ unhandled' = {}

\* SIGINT / SIGTERM: stopCurrentApp(), uploadServer.stop(), process.exit(0).
\* When stop() raises the async handler rejects and exit is not reached.
Shutdown ==
    /\ host = "up"
    /\ \E outcome \in StopOutcomes :
         IF outcome = "raised"
         THEN /\ unhandled' = unhandled \cup {"signal"}
              /\ UNCHANGED <<host, running, currentAppServer,
                             currentDeploymentHash, proc, answer, lastOk,
                             started, cli>>
         ELSE Halt
    /\ UNCHANGED <<boots, uploads, stateFile, dirs, tmp>>

\* The process is killed (or its container is recreated).  What is in flight
\* is cut short: a write of STATE_FILE may leave the file truncated, and an
\* `rm -rf` may have removed the directory that mkdirSync never recreates.
Crash ==
    /\ host = "up"
    /\ Halt
    /\ \/ UNCHANGED <<stateFile, dirs>>
       \/ /\ \E p \in Procs : proc[p].pc = "save"
          /\ stateFile' = Garbage
          /\ dirs' = dirs
       \/ /\ \E h \in Handlers :
               /\ proc[h].pc = "rmrf"
               /\ dirs' = [dirs EXCEPT ![proc[h].state.hash] = NoDir]
          /\ stateFile' = stateFile
    /\ UNCHANGED <<boots, uploads, tmp>>

\* While the process is down the state file is replaced from outside by a
\* JSON value that is no complete record: null, or the record less one field.
EditStateFile ==
    /\ host = "down"
    /\ boots < MaxBoots
    /\ IsRecord(stateFile)
    /\ \/ stateFile' = JsonNull
       \/ \E f \in AllFields :
            stateFile' = Stringify(
                DeploymentState(AllFields \ {f}, stateFile.state.hash,
                                stateFile.state.port, stateFile.state.entrypoint,
                                stateFile.state.timestamp))
    /\ UNCHANGED <<host, boots, uploads, dirs, tmp, running,
                   currentAppServer, currentDeploymentHash, proc, answer,
                   lastOk, started, unhandled, cli>>

\* -------------------------------------------------------------------- Next
Next ==
    \/ Boot
    \/ \E h \in Handlers, req \in Requests : Receive(h, req)
    \/ \E h \in Handlers : BodyDone(h)
    \/ \E h \in Handlers : TmpWriteDone(h)
    \/ \E h \in Handlers : RmRfDone(h)
    \/ \E h \in Handlers : TarDone(h)
    \/ \E h \in Handlers : RmTmpDone(h)
    \/ \E p \in Procs : ImportDone(p)
    \/ \E p \in Procs : SaveDone(p)
    \/ RecReadDone
    \/ Shutdown
    \/ Crash
    \/ EditStateFile

Spec == Init /\ [][Next]_vars

\* ------------------------------------------------------- cli.ts: main
\* Run r goes on as x; the server is not touched.
RunBecomes(r, x) ==
    /\ cli' = [cli EXCEPT !.run[r] = x]
    /\ UNCHANGED serverVars

\* main's catch: console.error and process.exit(1).
CliFailed(x) == [x EXCEPT !.pc = "failed", !.exit = {1}]

\* An execCommand that resolves whatever the exit code.
CommandAlwaysSucceeds(code) == TRUE

\* execCommand: the promise resolves when the command closes with code 0 and
\* rejects otherwise.
CommandSucceeded(code) == code = 0

\* main begins: readDeployConfig (deploy.json may be missing or no JSON),
\* then executeBuild spawns the build command.
CliMain(r) ==
    /\ cli.run[r].pc = "idle"
    /\ \E config \in BOOLEAN :
         RunBecomes(r, IF config
                       THEN [cli.run[r] EXCEPT !.pc = "build"]
                       ELSE CliFailed(cli.run[r]))

\* The build command closes with `code`.  On success main tests
\* existsSync(distPath), and createTarGz spawns tar.
BuildClosed(r) ==
    /\ cli.run[r].pc = "build"
    /\ \E code \in ExitCodes, dist \in BOOLEAN :
         LET x == [cli.run[r] EXCEPT !.build = {code}]
             built == [x EXCEPT !.did = Append(@, "build"), !.dist = {dist}]
         IN  RunBecomes(r,
               IF ~CommandSucceeded(code) THEN CliFailed(x)
               ELSE IF ~dist THEN CliFailed(built)
               ELSE [built EXCEPT !.did = Append(@, "check"),
                                  !.pc = "package"])

\* tar closes with `code`; statSync(outputFile) throws when the archive is
\* not there.  Then uploadToServer reads the archive, makes the identifier
\* from the bytes and the clock, and calls fetch.
TarClosed(r) ==
    /\ cli.run[r].pc = "package"
    /\ \E code \in ExitCodes, made \in BOOLEAN, content \in Contents :
         LET x == cli.run[r]
             tarred == [x EXCEPT !.archive = {made}]
         IN  RunBecomes(r,
               IF ~CommandSucceeded(code) THEN CliFailed(x)
               ELSE IF ~made THEN CliFailed(tarred)
               ELSE [tarred EXCEPT !.did = Append(@, "package"),
                                   !.content = content,
                                   !.hash = {generateHash(content, cli.now)},
                                   !.sent = TRUE,
                                   !.pc = "upload"])

\* fetch settles.  A rejection and a response that is not ok throw; so does
\* response.json() on a body that is no JSON.  Otherwise main removes the
\* archive and returns, and the process exits with 0.
ResponseArrives(r) ==
    /\ cli.run[r].pc = "upload"
    /\ \E resp \in Responses :
         LET x == [cli.run[r] EXCEPT !.response =
                      IF resp = NetworkError THEN {} ELSE {resp.status}]
         IN  RunBecomes(r,
               IF resp = NetworkError \/ ~ResponseOk(resp) \/ ~resp.json
               THEN CliFailed(x)
               ELSE [x EXCEPT !.did = Append(Append(@, "upload"), "cleanup"),
                              !.pc = "done", !.exit = {0}])

\* The client's clock advances.
CliTick ==
    /\ cli.now < MaxClock
    /\ cli' = [cli EXCEPT !.now = @ + 1]
    /\ UNCHANGED serverVars

CliNext ==
    \/ \E r \in Runs : CliMain(r)
    \/ \E r \in Runs : BuildClosed(r)
    \/ \E r \in Runs : TarClosed(r)
    \/ \E r \in Runs : ResponseArrives(r)
    \/ CliTick

CliSpec == Init /\ [][CliNext]_vars

\* ================================================================= claims
\* The step in which handler h answers the deploy it was running (answer'
\* is the response), and the step in which task p ends with `outcome`.
Answers(h) == proc[h].pc # "idle" /\ proc'[h].pc = "idle" /\ host' = "up"
EndsWith(p, outcome) == proc[p].outcome # outcome /\ proc'[p].outcome = outcome

\* The ledger holds the version, port and entrypoint of the descriptor st.
LedgerHolds(file, st) ==
    /\ IsRecord(file)
    /\ file.state.hash = st.hash
    /\ file.state.port = st.port
    /\ file.state.entrypoint = st.entrypoint

UploadedInstances == {i \in running : i.by \in Handlers}
RecoveredInstances == {i \in running : i.by = Recovery}

\* C1: when a valid upload is answered 200, exactly one application instance
\* exists, it is bound to the requested port, and the ledger holds the
\* version, port and entrypoint of the deploy that was answered.
C1_SuccessLeavesOneInstance ==
    [][\A h \in Handlers :
         (Answers(h) /\ answer'.outcome = "deployed") =>
            /\ Cardinality(running') = 1
            /\ \A i \in running' : i.port = proc[h].state.port
            /\ LedgerHolds(stateFile', proc[h].state)]_vars

\* C2: overlapping uploads never leave two application instances bound at the
\* same time.
C2_UploadsNeverDoubleBind == Cardinality(UploadedInstances) <= 1

\* C3: an upload handled while the startup recovery is in flight never leads
\* to the recovered and the uploaded instance running together.
C3_RecoveredAndUploadedNeverBoth ==
    ~(RecoveredInstances # {} /\ UploadedInstances # {})

\* C4: when the start step of a deploy fails, no application instance is
\* active afterwards and the ledger is what it was before the deploy.
C4_FailedStartLeavesEmptySlot ==
    [][\A h \in Handlers :
         (Answers(h) /\ answer'.outcome = "start") =>
            /\ running' = {}
            /\ currentAppServer' = {}
            /\ stateFile' = proc[h].before]_vars

\* C5: a deploy is answered 200 with the new instance active and the ledger
\* holding the new descriptor, or 500 with no instance active and the ledger
\* not updated; there is no third outcome.
C5_DeployIsAllOrNothing ==
    [][\A h \in Handlers :
         Answers(h) =>
            IF answer'.status = 200
            THEN /\ \E i \in currentAppServer' :
                      /\ i \in running'
                      /\ i.hash = proc[h].state.hash
                 /\ LedgerHolds(stateFile', proc[h].state)
            ELSE /\ answer'.status = 500
                 /\ running' = {}
                 /\ currentAppServer' = {}
                 /\ stateFile' = proc[h].before]_vars

\* C6: when the recovery finds a complete record whose directory exists, the
\* instance it starts has the recorded version, port and entrypoint and
\* becomes the current one; when the directory is missing the recovery
\* starts nothing, leaves the slot as it is, and no error escapes.
C6_RecoveredInstanceState ==
    LET pr == proc[Recovery]
        rec == pr.before.state
    IN  /\ IsRecord(pr.before) =>
              \A i \in RecoveredInstances :
                 i = Instance(Recovery, rec.hash, rec.port, rec.entrypoint)
        /\ pr.outcome = "nodir" =>
              /\ RecoveredInstances = {}
              /\ Recovery \notin unhandled
              /\ pr.pc = "done" /\ pr.status = 0

C6_RecoveryStep ==
    LET rec == proc'[Recovery].before.state
    IN  /\ (proc[Recovery].pc = "import" /\ proc'[Recovery].pc = "save"
              /\ IsRecord(proc'[Recovery].before)) =>
              /\ currentAppServer' =
                    {Instance(Recovery, rec.hash, rec.port, rec.entrypoint)}
              /\ currentAppServer' \subseteq running'
              /\ currentDeploymentHash' = rec.hash
        /\ EndsWith(Recovery, "nodir") =>
              /\ ~dirs[rec.hash].exists
              /\ UNCHANGED <<running, currentAppServer>>

\* C6, as one formula: the state part in every state and the step part in
\* every step.
C6_RecoverRestartsRecord == []C6_RecoveredInstanceState /\ [][C6_RecoveryStep]_vars

\* C6 witness: a recovered instance of a complete record is running on a
\* port other than the default.
C6_Witness ==
    /\ IsRecord(proc[Recovery].before)
    /\ proc[Recovery].outcome = "recovered"
    /\ \E i \in RecoveredInstances : i \in currentAppServer /\ i.port # DefaultPort

\* C6, second case reached: the recovery skipped a record whose directory is
\* missing.
C6_WitnessNoDir ==
    /\ proc[Recovery].outcome = "nodir"
    /\ IsRecord(proc[Recovery].before)
    /\ currentAppServer = {}

\* C7: whatever the state file holds that is no complete record (missing,
\* not JSON, null, a field short), no error escapes the recovery and no
\* instance is started from it.
C7_UnusableLedgerIsAbsent ==
    LET pr == proc[Recovery]
    IN  (pr.pc \notin {"idle", "read"} /\ ~IsRecord(pr.before)) =>
           /\ Recovery \notin unhandled
           /\ RecoveredInstances = {}

\* C8: a failure of startApp during the recovery is caught: it is no
\* unhandled rejection, the process stays up and answers no request with it.
C8_RecoveryStartFailureIsCaught ==
    LET pr == proc[Recovery]
    IN  pr.outcome = "start" =>
           /\ Recovery \notin unhandled
           /\ host = "up"
           /\ pr.pc = "done" /\ pr.status = 0

\* C8 witness: after the recovery failed to start the recorded version, an
\* upload was deployed and answered 200.
C8_Witness ==
    /\ proc[Recovery].outcome = "start"
    /\ answer.outcome = "deployed" /\ answer.status = 200
    /\ \E i \in currentAppServer : i.by \in Handlers /\ i \in running

\* C9: a stop() that raises does not abort the deploy: no deploy ends
\* because stopCurrentApp threw.
C9_StopFailureDoesNotAbort == answer.outcome # "stop"

\* No step of a deploy was carried out before the one it follows.
StepsInOrder(d) ==
    /\ "stop" \in d => "materialize" \in d
    /\ "start" \in d => "stop" \in d
    /\ "persist" \in d => "start" \in d

\* C10: the steps of one deploy run in the order materialize, stop, start,
\* persist, each only after the one before it succeeded; a deploy whose
\* materialization failed has neither stopped nor started nor persisted, and
\* one whose start failed has not persisted.
C10_StepsInOrder ==
    /\ \A h \in Handlers : StepsInOrder(proc[h].did)
    /\ StepsInOrder(answer.did)
    /\ answer.outcome = "materialize" => answer.did \subseteq {"materialize"}
    /\ answer.outcome = "start" => "persist" \notin answer.did

\* C10 witness: a deploy failed in materialization while an instance was
\* running, and the instance is still the current one.
C10_Witness ==
    /\ answer.outcome = "materialize"
    /\ "materialize" \notin answer.did
    /\ currentAppServer # {}
    /\ currentAppServer \subseteq running


\* A POST /upload, and one from which a deploy header is absent.
IsUpload(req) == req.route = UploadRoute
LacksHeader(req) ==
    req.hash = NoHeader \/ req.port = <<>> \/ req.entrypoint = NoHeader

\* C11: a POST /upload that lacks X-Deploy-Hash, X-Deploy-Port or
\* X-Deploy-Entrypoint is answered 400 in the turn that receives it, and that
\* turn changes no artifact directory, no temp file, not the ledger, and
\* neither the running instances nor the active one.
C11_MissingHeaderChangesNothing ==
    [][\A h \in Handlers, req \in Requests :
         (Receive(h, req) /\ IsUpload(req) /\ LacksHeader(req)) =>
            /\ answer'.status = 400
            /\ proc'[h].pc = "idle"
            /\ UNCHANGED <<dirs, tmp, stateFile, running, currentAppServer,
                           currentDeploymentHash>>]_vars

\* An upload lacking a header was answered 400 while a deployed instance
\* keeps running and the ledger keeps its record.
C11_Witness ==
    /\ answer.outcome = "missing"
    /\ answer.status = 400
    /\ currentAppServer # {}
    /\ currentAppServer \subseteq running
    /\ IsRecord(stateFile)

\* Whether s spells a decimal integer: digits, and nothing but digits.
IsDecimalInteger(s) == s # <<>> /\ DigitPrefix(s) = Len(s)

\* C12: a POST /upload whose X-Deploy-Port is not a decimal integer is
\* answered 400 in the turn that receives it and begins no deploy: the
\* handler never goes on to the body, materialization, stop or start.
C12_BadPortIsRejected ==
    [][\A h \in Handlers, req \in Requests :
         (Receive(h, req) /\ IsUpload(req) /\ ~IsDecimalInteger(req.port)) =>
            /\ answer'.status = 400
            /\ proc'[h].pc = "idle"]_vars

\* The turn in which a deploy that ran alone binds its instance: the slot was
\* emptied first, and no instance of another deploy holds the port.
C13_StartStep ==
    \A h \in Handlers :
        (proc[h].alone /\ proc[h].pc = "import" /\ proc'[h].pc = "save") =>
            /\ "stop" \in proc[h].did
            /\ currentAppServer = {}
            /\ \A i \in running : i.port # proc[h].state.port
            /\ \A i \in running' :
                 i.port = proc[h].state.port =>
                    i.by = h /\ i.hash = proc[h].state.hash

\* The turn in which a deploy that ran alone answers 200: its instance is the
\* active one and the only one on its port, /status reports its version,
\* and the ledger holds its descriptor.
C13_AnswerStep ==
    \A h \in Handlers :
        (proc[h].alone /\ Answers(h) /\ answer'.outcome = "deployed") =>
            LET st == proc[h].state
                inst == Instance(h, st.hash, st.port, st.entrypoint)
            IN  /\ currentAppServer' = {inst}
                /\ inst \in running'
                /\ \A i \in running' : i.port = st.port => i = inst
                /\ currentDeploymentHash' = st.hash
                /\ LedgerHolds(stateFile', st)

\* C13: for uploads handled one after the other that succeed on the same
\* port, the instance of the earlier version is stopped before the instance
\* of the later one is started, and when the later deploy is answered its
\* instance is the one bound to the port, GET /status reports its version
\* and the ledger holds its descriptor.
C13_SequentialSwitch == [][C13_StartStep /\ C13_AnswerStep]_vars

\* Within one run of the process, v1 was deployed on a port and a later
\* upload of another version on the same port, handled alone, has stopped
\* v1 and started its own instance there.
C13_Witness ==
    \E h \in Handlers :
        /\ proc[h].alone
        /\ proc[h].pc = "save"
        /\ boots = 1
        /\ IsRecord(proc[h].before)
        /\ proc[h].before.state.hash # proc[h].state.hash
        /\ proc[h].before.state.port = proc[h].state.port
        /\ running = {Instance(h, proc[h].state.hash, proc[h].state.port,
                               proc[h].state.entrypoint)}
        /\ currentAppServer = running

\* C14: whenever the materialization of a deploy of version v completes
\* (tar has extracted), the directory of v holds exactly the files of the
\* archive that this deploy uploaded: nothing of an earlier or an
\* overlapping upload of v.
C14_RedeployReplacesDirectory ==
    [][\A h \in Handlers :
         (proc[h].pc = "tar" /\ proc'[h].pc = "rmtmp") =>
            /\ dirs'[proc[h].state.hash].exists
            /\ dirs'[proc[h].state.hash].files = proc[h].archive.files]_vars

\* The same, for the deploys that ran with no other task in flight.
C14_AloneRedeployReplacesDirectory ==
    [][\A h \in Handlers :
         (proc[h].alone /\ proc[h].pc = "tar" /\ proc'[h].pc = "rmtmp") =>
            /\ dirs'[proc[h].state.hash].exists
            /\ dirs'[proc[h].state.hash].files = proc[h].archive.files]_vars

\* No deploy and no recovery is in flight.
Quiescent == host = "up" /\ \A p \in Procs : ~InFlight(proc[p])

\* C15: in every state where no deploy or recovery is in flight and an
\* instance is active, the ledger holds the version, port and entrypoint of
\* the active instance.
C15_LedgerHoldsActiveInstance ==
    (Quiescent /\ currentAppServer # {}) =>
        \E i \in currentAppServer : LedgerHolds(stateFile, i)

\* C16: switching versions has zero downtime: no turn of a deploy takes a
\* server that has an application instance serving to a state in which no
\* application instance is serving.
C16_ZeroDowntime ==
    [][\A h \in Handlers :
         (InFlight(proc[h]) /\ proc'[h] # proc[h] /\ host' = "up"
            /\ running # {}) => running' # {}]_vars

\* A graceful shutdown that reaches process.exit: it stops the instance and
\* the listener and leaves the ledger and the artifact directories as they
\* are; and when the deploys before it were all finished, the record it
\* leaves for the next start is the descriptor of the last upload that was
\* answered 200.
C17_ShutdownStep ==
    (Shutdown /\ host' = "down") =>
        /\ stateFile' = stateFile
        /\ dirs' = dirs
        /\ running' = {}
        /\ currentAppServer' = {}
        /\ (Quiescent /\ lastOk # NoState /\ IsRecord(stateFile)) =>
              LedgerHolds(stateFile', lastOk)

\* C17: after successful deploys, a graceful shutdown and a restart, the
\* instance restored at startup is the last successfully deployed version on
\* its recorded port: the shutdown leaves the ledger and the directories
\* unchanged, the record it leaves is the last deploy answered 200, and the
\* recovery starts the instance of the record it reads.
C17_RestartRestoresLastDeploy ==
    []C6_RecoveredInstanceState /\ [][C17_ShutdownStep]_vars

AllSteps == {"materialize", "stop", "start", "persist"}

\* The turn that receives a request which is no valid upload answers it:
\* 200 to GET /status, 404 to every other path and method with no state
\* changed, and 400 to an upload that `invalid` holds of.
RoutedStatus(h, req, invalid) ==
    IF IsUpload(req)
    THEN invalid => (answer'.status = 400 /\ proc'[h].pc = "idle")
    ELSE /\ answer'.status = IF req.route = StatusRoute THEN 200 ELSE 404
         /\ proc' = proc
         /\ UNCHANGED <<host, stateFile, dirs, tmp, running, currentAppServer,
                        currentDeploymentHash, unhandled>>

\* The turn in which a deploy is answered: 200 exactly when every step was
\* carried out, and 500 otherwise.
DeployStatus(h) ==
    Answers(h) =>
        /\ answer'.status \in {200, 500}
        /\ answer'.status = 200 <=> answer'.did = AllSteps
        /\ answer'.status = 500 <=> answer'.outcome \in Errors

\* C18: the response status is a function of the request and of the deploy
\* outcome: POST /upload gives 400 when validation fails (a header is absent,
\* or the port is one the parse gives no number for), 200 exactly when all
\* deploy steps succeeded and 500 when a step failed; GET /status gives 200;
\* every other path and method gives 404 and changes no state.
C18_StatusIsFunctionOfRequest ==
    [][/\ \A h \in Handlers, req \in Requests :
            Receive(h, req) =>
               RoutedStatus(h, req,
                   LacksHeader(req) \/ DigitPrefix(req.port) = 0)
       /\ \A h \in Handlers : DeployStatus(h)]_vars

\* GET /upload or POST /status was answered 404 while a deployed instance
\* keeps running and the ledger keeps its record.
C18_Witness ==
    /\ answer.outcome = "notfound"
    /\ answer.status = 404
    /\ currentAppServer # {}
    /\ currentAppServer \subseteq running
    /\ IsRecord(stateFile)

\* C19: every response of the control plane is JSON with an explicit success
\* boolean: the body of every response sent is a JSON object that has the
\* field success.
C19_EveryResponseHasSuccess ==
    answer # NoAnswer =>
        answer.body.type = "json" /\ "success" \in answer.body.fields

\* C20: GET /status reports the running instance: in every state where no
\* deploy or recovery is in flight, currentDeployment is null exactly when no
\* application instance is active, and otherwise is the version of the
\* active instance.
C20_StatusReportsActiveInstance ==
    Quiescent =>
        IF currentAppServer = {}
        THEN currentDeploymentHash = "null"
        ELSE \E i \in currentAppServer : i.hash = currentDeploymentHash

\* C21: a failed upload never damages the version the ledger points to: in
\* every state where no deploy or recovery is in flight and the ledger holds
\* a record, the artifact directory of the recorded version exists and holds
\* the files with which that version was last successfully started.
C21_RecordedVersionIsIntact ==
    (Quiescent /\ IsRecord(stateFile)) =>
        /\ dirs[stateFile.state.hash].exists
        /\ dirs[stateFile.state.hash].files = started[stateFile.state.hash]

\* C22: startup recovery leaves the ledger record unchanged: when the
\* recovery has restarted the recorded version, the state file is what the
\* recovery read, every field and the timestamp included.
C22_RecoveryKeepsLedger ==
    [][(EndsWith(Recovery, "recovered") /\ IsRecord(proc[Recovery].before)) =>
          stateFile' = proc[Recovery].before]_vars

\* C23: the version identifier the client creates is unique per upload: any
\* two distinct runs that have made their identifier hold different ones.
C23_IdentifierIsUnique ==
    \A r1, r2 \in Runs :
        (r1 # r2 /\ cli.run[r1].hash # {} /\ cli.run[r2].hash # {}) =>
            cli.run[r1].hash # cli.run[r2].hash

\* The steps run r has passed are the first steps of main, in main's order.
CliInOrder(r) ==
    /\ Len(cli.run[r].did) <= Len(Steps)
    /\ cli.run[r].did = SubSeq(Steps, 1, Len(cli.run[r].did))

\* C24: the CLI runs build, check of the build output, package, upload and
\* cleanup strictly in that order and stops at the first failure with exit
\* code 1: nothing is uploaded unless the build exited with 0, the build
\* output exists and the archive was created; a response that is not 2xx is
\* a failure; the exit code is 0 only after all five steps.
C24_CliStopsAtFirstFailure ==
    \A r \in Runs :
        LET x == cli.run[r] IN
        /\ CliInOrder(r)
        /\ x.sent => (x.build = {0} /\ x.dist = {TRUE} /\ x.archive = {TRUE})
        /\ (x.build # {} /\ x.build # {0}) =>
               (x.pc = "failed" /\ x.did = <<>> /\ ~x.sent)
        /\ x.dist = {FALSE} =>
               (x.pc = "failed" /\ x.did = <<"build">> /\ ~x.sent)
        /\ x.archive = {FALSE} =>
               (x.pc = "failed" /\ x.did = <<"build", "check">> /\ ~x.sent)
        /\ (x.response # {} /\ \E s \in x.response : s < 200 \/ s > 299) =>
               (x.pc = "failed" /\ x.did = <<"build", "check", "package">>)
        /\ x.pc = "failed" <=> x.exit = {1}
        /\ x.pc = "done" <=> x.exit = {0}
        /\ x.pc = "done" => x.did = Steps
        /\ x.pc \notin {"failed", "done"} => x.exit = {}

\* One run stopped at a failed build with nothing sent, and the other got a
\* 500 for its upload and ended with exit code 1.
C24_Witness ==
    \E r1, r2 \in Runs :
        /\ cli.run[r1].build = {1} /\ cli.run[r1].exit = {1}
        /\ ~cli.run[r1].sent
        /\ cli.run[r2].sent /\ cli.run[r2].response = {500}
        /\ cli.run[r2].exit = {1}

====
